---- MODULE Spec2Model ----
(***************************************************************************)
(* spawn-task-port: CommandSpawnWithTask::spawn_get_task_port, as a state  *)
(* machine.  One parent process runs up to MaxAttempts calls (threads may  *)
(* run calls on different Command values concurrently; a Command is        *)
(* borrowed mutably for the whole call).  Each call allocates a Mach port, *)
(* registers it under a fresh name, forks a child whose pre_exec closures  *)
(* look the name up and send the child's task port, and then receives one  *)
(* message.  The kernel, the bootstrap server and one foreign process      *)
(* (the decoy of the code's comment at lib.rs:280-282) are the environment.*)
(***************************************************************************)
EXTENDS Integers, Sequences, FiniteSets, TLC

\* ------------------------------------------------------------------ bounds
MaxAttempts == 2
NumCommands == 2
MaxDecoySends == 1
\* calls made one after another in the specification of repeated use
MaxReuse == 7

Attempts == 1..MaxAttempts
Commands == 1..NumCommands
PortNames == 1..MaxAttempts
Names == 1..MaxAttempts
ReuseAttempts == 1..MaxReuse

\* ------------------------------------------------- message layout (words)
\* One word is 4 bytes.  mach_msg_header_t is 24 bytes, mach_msg_body_t 4,
\* mach_msg_port_descriptor_t 12, mach_msg_trailer_t 8 and
\* mach_msg_audit_trailer_t 52.
HeaderWords == 6
BodyWords == 1
DescriptorWords == 3
MinTrailerWords == 2
AuditTrailerWords == 13
\* MACH_MSG_TYPE_COPY_SEND, masked by MACH_MSGH_BITS_REMOTE (& 0x1f)
COPY_SEND == 19
\* MACH_MSG_TYPE_MOVE_SEND, the disposition the descriptor does not ask for
MOVE_SEND == 17
\* MACH_MSGH_BITS_COMPLEX = 0x80000000: bit 31 of the 32-bit word, which
\* the words of this model hold in two's complement.
BITS_COMPLEX == -2147483647 - 1
\* the name mach_task_self() has in every task's own IPC space (0x103)
TaskSelfName == 259
\* the pids of the parent and of the foreign process; children get pids
\* from FirstChildPid on
ParentPid == 1
DecoyPid == 2
FirstChildPid == 3
\* names the kernel gives to task ports copied out into the parent's space
TaskNameBase == 100
\* the bootstrap special port, as named in the parent and in the child
ParentBootstrapPort == 7
ChildBootstrapPort == 9
\* the child's bootstrap special port when the fork did not preserve the
\* parent's: a reference to a namespace the parent registered nothing in
RemappedBootstrapPort == 11

VARIABLES
    audit_pid,      \* the build's feature "audit_pid"
    started,        \* number of calls of spawn_get_task_port made so far
    att,            \* per call: its locals, program counter and result
    closures,       \* per Command: the names captured by its pre_exec closures
    space,          \* the parent's IPC space: rights held under each port name
    queue,          \* per port: messages queued and not yet received
    registry,       \* bootstrap server: name -> port (0: unregistered)
    release_calls,  \* per port name: mach_port_deallocate calls by MachPort::drop
    release_kr,     \* per port name: what the last such call returned
    child,          \* per call: the forked child process
    log,            \* per call: steps executed, in order, with their outcome
    next_pid,       \* next pid the kernel hands out
    decoy_sent      \* messages the foreign process has sent

vars == <<audit_pid, started, att, closures, space, queue, registry,
          release_calls, release_kr, child, log, next_pid, decoy_sent>>

\* MACH_PORT_QLIMIT_DEFAULT: a send with no timeout blocks while the
\* destination's queue holds this many messages.
QLimit == 5

\* ---------------------------------------------------------------- records
\* A message in flight: the sender's pid and pidversion as the kernel knows
\* them (audit token val[5] and val[7]) and the words sent.
NoMsg == [sender |-> 0, pidversion |-> 0, words |-> <<>>]
Msg(sender, pidversion, words) ==
    [sender |-> sender, pidversion |-> pidversion, words |-> words]

NoAttempt ==
    [cmd |-> 0, pc |-> "idle", port |-> 0, wrapper |-> FALSE, name |-> 0,
     bootstrap_port |-> 0, child_pid |-> 0, msg |-> NoMsg, buf |-> <<>>,
     result |-> "none", err |-> "", expected |-> 0, got |-> 0,
     ret_child |-> 0, ret_task |-> -1]

\* task_self: the user references the child holds on its own task port
NoChild ==
    [pid |-> 0, pc |-> "none", k |-> 0, bootstrap_port |-> 0, port |-> 0,
     task_self |-> 0]

Entry(step, n, ok) == [step |-> step, n |-> n, ok |-> ok]

Init ==
    /\ audit_pid \in BOOLEAN
    /\ started = 0
    /\ att = [a \in Attempts |-> NoAttempt]
    /\ closures = [c \in Commands |-> <<>>]
    /\ space = [p \in PortNames |-> [recv |-> FALSE, srefs |-> 0]]
    /\ queue = [p \in PortNames |-> <<>>]
    /\ registry = [n \in Names |-> 0]
    /\ release_calls = [p \in PortNames |-> 0]
    /\ release_kr = [p \in PortNames |-> "none"]
    /\ child = [a \in Attempts |-> NoChild]
    /\ log = [a \in Attempts |-> <<>>]
    /\ next_pid = FirstChildPid
    /\ decoy_sent = 0

\* ------------------------------------------------------- message codec
SendWords == HeaderWords + BodyWords + DescriptorWords
TrailerWords == IF audit_pid THEN AuditTrailerWords ELSE MinTrailerWords
\* mem::size_of::<mach_msg_recv_t>() in words
RecvWords == SendWords + TrailerWords

\* MACH_MSGH_BITS_REMOTE(remote) = remote & MACH_MSGH_BITS_REMOTE_MASK (0x1f)
MACH_MSGH_BITS_REMOTE(remote) == remote % 32

\* Faulty variant: the descriptor asks for the task port to be moved
mach_msg_send_t_MoveSend(dest) ==
    <<MACH_MSGH_BITS_REMOTE(COPY_SEND) + BITS_COMPLEX, SendWords * 4, dest, 0, 0, 0,
      1,
      TaskSelfName, 0, MOVE_SEND>>

\* The mach_msg_send_t the closure builds, in the sender's names.
mach_msg_send_t(dest) ==
    <<MACH_MSGH_BITS_REMOTE(COPY_SEND) + BITS_COMPLEX, SendWords * 4, dest, 0, 0, 0,
      1,
      TaskSelfName, 0, COPY_SEND>>

IsComplex(words) == words[1] < 0

\* Kernel copy-in/copy-out of a sent message: in a complex message with one
\* port descriptor the sender's name is replaced by the receiver's name for
\* the same port; the task-self name denotes the sender's own task port.
Transfer(sender, words) ==
    IF IsComplex(words) /\ Len(words) >= SendWords /\ words[HeaderWords + 1] = 1
    THEN [words EXCEPT ![HeaderWords + BodyWords + 1] =
              IF @ = TaskSelfName THEN TaskNameBase + sender ELSE 0]
    ELSE words

\* Kernel copy-in on the sender's side: a descriptor with the move-send
\* disposition takes one user reference of the named right away from the
\* sender; copy-send leaves the sender's references as they are.
CopyinRefs(refs, words) ==
    IF IsComplex(words) /\ Len(words) >= SendWords /\ words[HeaderWords + 1] = 1
       /\ words[SendWords] = MOVE_SEND
    THEN refs - 1
    ELSE refs

\* The trailer the kernel appends right after the message it delivers, at
\* round_msg(msgh_size): type, size and, when the audit trailer is asked
\* for, seqno, the 2-word security token and the 8-word audit token
\* (auid, euid, egid, ruid, rgid, pid, asid, pidversion).
Trailer(m) ==
    IF audit_pid
    THEN <<0, AuditTrailerWords * 4, 0, 0, 0, 0, 0, 0, 0, 0, m.sender, 0, m.pidversion>>
    ELSE <<0, MinTrailerWords * 4>>

\* MACH_RCV_TOO_LARGE: message plus requested trailer exceed rcv_size.
TooLarge(m) == Len(m.words) + TrailerWords > RecvWords

\* The zeroed mach_msg_recv_t after a successful receive of m.
RecvBuffer(m) ==
    LET raw == m.words \o Trailer(m)
    IN  [i \in 1..RecvWords |-> IF i <= Len(raw) THEN raw[i] ELSE 0]

\* msg.task_port.name: the first word of the descriptor field.
task_port_name(buf) == buf[HeaderWords + BodyWords + 1]

\* audit_token_to_pid(msg.msg_trailer.msgh_audit): val[5] of the token that
\* the struct places after trailer type, size, seqno and the 2-word sender.
audit_token_to_pid(buf) == buf[SendWords + 5 + 6]

\* pid_for_task on a name of the parent's space (-1: KERN_FAILURE, the name
\* denotes no task port).
pid_for_task(name) ==
    IF name = TaskSelfName THEN ParentPid
    ELSE IF name > TaskNameBase /\ name < TaskSelfName THEN name - TaskNameBase
    ELSE -1

\* ------------------------------------------------------- kernel: rights
\* mach_port_deallocate(task, name): releases one user reference of a send
\* right; a name holding no send right gives KERN_INVALID_RIGHT.  It never
\* touches a receive right.
DeallocateKr(sp, p) == IF sp[p].srefs > 0 THEN "success" ELSE "invalid_right"
Deallocate(sp, p) ==
    IF sp[p].srefs > 0 THEN [sp EXCEPT ![p].srefs = @ - 1] ELSE sp

\* ------------------------------------------------------------ call exit
\* End of spawn_get_task_port: the locals are dropped.  Dropping the
\* MachPort wrapper calls mach_port_deallocate once and ignores what it
\* returns; dropping the Child handle neither kills nor reaps the process.
\* Faulty variant: the wrapper is forgotten once the child exists
DropsPort_NotAfterSpawn(r) == r.wrapper /\ r.child_pid = 0

DropsPort(r) == r.wrapper

Finish(a, res, errkind, exp, got, rc, rt) ==
    LET r == att[a] IN
    /\ att' = [att EXCEPT ![a] =
                 [r EXCEPT !.pc = "done", !.result = res, !.err = errkind,
                           !.expected = exp, !.got = got,
                           !.ret_child = rc, !.ret_task = rt,
                           !.wrapper = FALSE]]
    /\ IF DropsPort(r)
       THEN /\ space' = Deallocate(space, r.port)
            /\ release_calls' = [release_calls EXCEPT ![r.port] = @ + 1]
            /\ release_kr' = [release_kr EXCEPT ![r.port] = DeallocateKr(space, r.port)]
       ELSE UNCHANGED <<space, release_calls, release_kr>>

\* Faulty variant: a failure after the child exists is swallowed: Ok with a null port
Fail_KeepsChild(a, call) ==
    IF att[a].child_pid # 0
    THEN Finish(a, "ok", "", 0, 0, att[a].child_pid, 0)
    ELSE Finish(a, "err", call, 0, 0, 0, -1)

\* ktry!: a status other than KERN_SUCCESS returns Err naming the call.
Fail(a, call) == Finish(a, "err", call, 0, 0, 0, -1)

Logged(a, step, n, ok) == log' = [log EXCEPT ![a] = Append(@, Entry(step, n, ok))]

\* A Command is borrowed mutably by a call until the call returns.
Busy(c) == \E a \in DOMAIN att : att[a].cmd = c /\ att[a].pc \notin {"idle", "done"}

\* ------------------------------------------------------ parent: the call
\* A caller invokes spawn_get_task_port on Command c.
Call(c) ==
    /\ started < MaxAttempts
    /\ ~Busy(c)
    /\ started' = started + 1
    /\ att' = [att EXCEPT ![started + 1] = [@ EXCEPT !.cmd = c, !.pc = "allocate"]]
    /\ UNCHANGED <<audit_pid, closures, space, queue, registry, release_calls,
                   release_kr, child, log, next_pid, decoy_sent>>

\* The kernel names a new right with a name not in use in the space.
FreshPort == CHOOSE p \in DOMAIN space :
                 /\ ~space[p].recv /\ space[p].srefs = 0
                 /\ \A q \in DOMAIN space : (q < p) => (space[q].recv \/ space[q].srefs > 0)

\* mach_port_allocate(mach_task_self(), MACH_PORT_RIGHT_RECEIVE, &r); MachPort(r)
Allocate(a, ok) ==
    /\ att[a].pc = "allocate"
    /\ Logged(a, "allocate", 0, ok)
    /\ IF ok
       THEN /\ att' = [att EXCEPT ![a] = [@ EXCEPT !.port = FreshPort, !.wrapper = TRUE,
                                             !.pc = "insert_right"]]
            /\ space' = [space EXCEPT ![FreshPort].recv = TRUE]
            /\ UNCHANGED <<release_calls, release_kr>>
       ELSE Fail(a, "mach_port_allocate")
    /\ UNCHANGED <<audit_pid, started, closures, queue, registry, child, next_pid, decoy_sent>>

\* Faulty variant: one fixed name for every call
new_v4_Static == 1 + 0

\* Uuid::new_v4(): a random 128-bit value, taken as one no earlier call drew.
new_v4 == 1 + Cardinality({a \in DOMAIN att : att[a].name # 0})

\* mach_port_insert_right(mach_task_self(), port.0, port.0, MACH_MSG_TYPE_MAKE_SEND),
\* then let uuid = Uuid::new_v4().simple().to_string(); CString::new(uuid): the
\* 32 hexadecimal digits hold no NUL byte, so the CString is always built.
InsertRight(a, ok) ==
    /\ att[a].pc = "insert_right"
    /\ Logged(a, "insert_right", 0, ok)
    /\ IF ok
       THEN /\ att' = [att EXCEPT ![a] = [@ EXCEPT !.name = new_v4, !.pc = "get_bootstrap"]]
            /\ space' = [space EXCEPT ![att[a].port].srefs = @ + 1]
            /\ UNCHANGED <<release_calls, release_kr>>
       ELSE Fail(a, "mach_port_insert_right")
    /\ UNCHANGED <<audit_pid, started, closures, queue, registry, child, next_pid, decoy_sent>>

\* Faulty variant: the status of task_get_special_port is not checked
GetBootstrapPort_Unchecked(a, ok) ==
    /\ att[a].pc = "get_bootstrap"
    /\ Logged(a, "get_bootstrap", 0, ok)
    /\ att' = [att EXCEPT ![a] = [@ EXCEPT !.bootstrap_port = IF ok THEN ParentBootstrapPort ELSE 0,
                                          !.pc = "register"]]
    /\ UNCHANGED <<audit_pid, started, closures, space, queue, registry, release_calls,
                   release_kr, child, next_pid, decoy_sent>>

\* task_get_special_port(mach_task_self(), TASK_BOOTSTRAP_PORT, &r) in the parent
GetBootstrapPort(a, ok) ==
    /\ att[a].pc = "get_bootstrap"
    /\ Logged(a, "get_bootstrap", 0, ok)
    /\ IF ok
       THEN /\ att' = [att EXCEPT ![a] = [@ EXCEPT !.bootstrap_port = ParentBootstrapPort,
                                             !.pc = "register"]]
            /\ UNCHANGED <<space, release_calls, release_kr>>
       ELSE Fail(a, "task_get_special_port")
    /\ UNCHANGED <<audit_pid, started, closures, queue, registry, child, next_pid, decoy_sent>>

\* Faulty variant: the registration is left out and the call goes on to spawn
Register_Skipped(a, ok) ==
    /\ att[a].pc = "register"
    /\ Logged(a, "register", att[a].name, ok)
    /\ IF ok
       THEN /\ att' = [att EXCEPT ![a].pc = "spawn"]
            /\ UNCHANGED <<space, release_calls, release_kr>>
       ELSE Fail(a, "bootstrap_register2")
    /\ UNCHANGED <<audit_pid, started, closures, queue, registry, child, next_pid, decoy_sent>>

\* Faulty variant: the registration moves the receive right to the server
Register_MovesReceive(a, ok) ==
    /\ att[a].pc = "register"
    /\ Logged(a, "register", att[a].name, ok)
    /\ IF ok /\ registry[att[a].name] = 0
       THEN /\ att' = [att EXCEPT ![a].pc = "spawn"]
            /\ registry' = [registry EXCEPT ![att[a].name] = att[a].port]
            /\ space' = [space EXCEPT ![att[a].port].recv = FALSE]
            /\ UNCHANGED <<release_calls, release_kr>>
       ELSE /\ Fail(a, "bootstrap_register2")
            /\ UNCHANGED registry
    /\ UNCHANGED <<audit_pid, started, closures, queue, child, next_pid, decoy_sent>>

\* bootstrap_register2(bootstrap_port, name, port.0, 0): the server keeps a
\* send right to the port under the name.
Register(a, ok) ==
    /\ att[a].pc = "register"
    /\ Logged(a, "register", att[a].name, ok)
    /\ IF ok /\ registry[att[a].name] = 0
       THEN /\ att' = [att EXCEPT ![a].pc = "spawn"]
            /\ registry' = [registry EXCEPT ![att[a].name] = att[a].port]
            /\ UNCHANGED <<space, release_calls, release_kr>>
       ELSE /\ Fail(a, "bootstrap_register2")
            /\ UNCHANGED registry
    /\ UNCHANGED <<audit_pid, started, closures, queue, child, next_pid, decoy_sent>>

\* --------------------------------------------------- spawn and the child
\* self.pre_exec(move || ..): the closure, holding the name, is pushed on
\* the Command and stays there.  .spawn(): fork; the child runs every
\* closure of the Command in order, then execs.
Spawn(a, ok) ==
    LET r == att[a] IN
    /\ r.pc = "spawn"
    /\ closures' = [closures EXCEPT ![r.cmd] = Append(@, r.name)]
    /\ IF ok
       THEN /\ att' = [att EXCEPT ![a].pc = "spawn_wait"]
            /\ child' = [child EXCEPT ![a] =
                           [NoChild EXCEPT !.pid = next_pid, !.pc = "bootstrap", !.k = 1,
                                           !.task_self = 1]]
            /\ next_pid' = next_pid + 1
            /\ Logged(a, "fork", r.name, TRUE)
            /\ UNCHANGED <<space, release_calls, release_kr>>
       ELSE /\ Fail(a, "spawn")
            /\ Logged(a, "spawn", r.name, FALSE)
            /\ UNCHANGED <<child, next_pid>>
    /\ UNCHANGED <<audit_pid, started, queue, registry, decoy_sent>>

\* The name captured by the closure the child of call a is running.
ClosureName(a) == closures[att[a].cmd][child[a].k]

\* The closure returned Ok(()): the next closure runs, or the child execs.
ClosureDone(a) ==
    IF child[a].k < Len(closures[att[a].cmd])
    THEN [child[a] EXCEPT !.k = @ + 1, !.pc = "bootstrap", !.bootstrap_port = 0, !.port = 0]
    ELSE [child[a] EXCEPT !.pc = "exec", !.bootstrap_port = 0, !.port = 0]

\* Faulty variant: a closure's error is dropped and the child goes on to exec
ClosureFailed_ExecsAnyway(a) == [child[a] EXCEPT !.pc = "exec", !.port = 0]

\* The closure returned Err: the child reports it to the parent and exits.
ClosureFailed(a) == [child[a] EXCEPT !.pc = "failed", !.port = 0]

\* What task_get_special_port may give the child: its reference to the
\* namespace of the parent, or to another one.
ChildBootstrapPorts == {ChildBootstrapPort, RemappedBootstrapPort}

\* The bootstrap server's answer to a look-up of name n through reference
\* bp (0: BOOTSTRAP_UNKNOWN_SERVICE).  The parent's reference and the
\* child's preserved one denote the namespace holding the registrations.
bootstrap_look_up(bp, n) ==
    IF bp \in {ParentBootstrapPort, ChildBootstrapPort} THEN registry[n] ELSE 0

\* task_get_special_port(mach_task_self(), TASK_BOOTSTRAP_PORT, &r) in the child
ChildGetBootstrapPort(a, ok) ==
    /\ child[a].pc = "bootstrap"
    /\ Logged(a, "child_get_bootstrap", ClosureName(a), ok)
    /\ \E bp \in ChildBootstrapPorts :
          child' = [child EXCEPT ![a] =
                      IF ok THEN [@ EXCEPT !.bootstrap_port = bp, !.pc = "lookup"]
                      ELSE ClosureFailed(a)]
    /\ UNCHANGED <<audit_pid, started, att, closures, space, queue, registry,
                   release_calls, release_kr, next_pid, decoy_sent>>

\* Faulty variant: the closure captures the reference the parent fetched
LookUpVia_ParentValue(a) == att[a].bootstrap_port

\* The closure's own local bootstrap_port, which it passes to the look-up.
LookUpVia(a) == child[a].bootstrap_port

\* bootstrap_look_up(bootstrap_port, name, &r); MachPort(r)
ChildLookUp(a, ok) ==
    LET found == bootstrap_look_up(LookUpVia(a), ClosureName(a)) IN
    /\ child[a].pc = "lookup"
    /\ Logged(a, "child_look_up", ClosureName(a), ok /\ found # 0)
    /\ child' = [child EXCEPT ![a] =
                   IF ok /\ found # 0
                   THEN [@ EXCEPT !.port = found, !.pc = "send"]
                   ELSE ClosureFailed(a)]
    /\ UNCHANGED <<audit_pid, started, att, closures, space, queue, registry,
                   release_calls, release_kr, next_pid, decoy_sent>>

\* mach_msg(&mut msg.msg_header, MACH_SEND_MSG, size_of::<mach_msg_send_t>(), ..,
\* MACH_MSG_TIMEOUT_NONE, ..), then the closure ends and parent_port drops.
ChildSend(a, ok) ==
    LET c == child[a] IN
    /\ c.pc = "send"
    /\ Len(queue[c.port]) < QLimit
    /\ Logged(a, "child_send", ClosureName(a), ok)
    /\ IF ok
       THEN /\ queue' = [queue EXCEPT ![c.port] =
                           Append(@, Msg(c.pid, 0, Transfer(c.pid, mach_msg_send_t(c.port))))]
            /\ child' = [child EXCEPT ![a] =
                           [ClosureDone(a) EXCEPT !.task_self =
                               CopyinRefs(c.task_self, mach_msg_send_t(c.port))]]
       ELSE /\ child' = [child EXCEPT ![a] = ClosureFailed(a)]
            /\ UNCHANGED queue
    /\ UNCHANGED <<audit_pid, started, att, closures, space, registry,
                   release_calls, release_kr, next_pid, decoy_sent>>

\* exec of the target program, after the last closure returned Ok.
ChildExec(a, ok) ==
    /\ child[a].pc = "exec"
    /\ Logged(a, "exec", 0, ok)
    /\ child' = [child EXCEPT ![a].pc = IF ok THEN "running" ELSE "failed"]
    /\ UNCHANGED <<audit_pid, started, att, closures, space, queue, registry,
                   release_calls, release_kr, next_pid, decoy_sent>>

\* Faulty variant: the error the child reported is ignored
SpawnOk_IgnoresChildError(c) == TRUE

\* What .spawn() returns once the child has exec'ed or reported an error.
SpawnOk(c) == c.pc = "running"

\* Faulty variant: spawn returns the child right after the fork
SpawnReturn_NoWait(a) ==
    /\ att[a].pc = "spawn_wait"
    /\ Logged(a, "spawn", att[a].name, TRUE)
    /\ att' = [att EXCEPT ![a] = [@ EXCEPT !.child_pid = child[a].pid, !.pc = "receive"]]
    /\ UNCHANGED <<space, release_calls, release_kr, child>>
    /\ UNCHANGED <<audit_pid, started, closures, queue, registry, next_pid, decoy_sent>>

\* .spawn()? returns in the parent: Ok(child) after the exec, Err once the
\* child reported a closure's or the exec's error (the child is then reaped).
SpawnReturn(a) ==
    /\ att[a].pc = "spawn_wait"
    /\ child[a].pc \in {"running", "failed"}
    /\ Logged(a, "spawn", att[a].name, SpawnOk(child[a]))
    /\ IF SpawnOk(child[a])
       THEN /\ att' = [att EXCEPT ![a] = [@ EXCEPT !.child_pid = child[a].pid, !.pc = "receive"]]
            /\ UNCHANGED <<space, release_calls, release_kr, child>>
       ELSE /\ Fail(a, "spawn")
            /\ child' = [child EXCEPT ![a].pc = IF @ = "failed" THEN "reaped" ELSE @]
    /\ UNCHANGED <<audit_pid, started, closures, queue, registry, next_pid, decoy_sent>>

\* ------------------------------------------------------ parent: receive
\* mach_msg(.., MACH_RCV_MSG | options, 0, size_of::<mach_msg_recv_t>(), port.0,
\* MACH_MSG_TIMEOUT_NONE, ..): blocks until a message is queued; the message
\* leaves the queue whether or not it fits.
Receive(a, ok) ==
    LET r == att[a]
        m == Head(queue[r.port])
    IN
    /\ r.pc = "receive"
    /\ queue[r.port] # <<>>
    /\ queue' = [queue EXCEPT ![r.port] = Tail(@)]
    /\ Logged(a, "receive", 0, ok /\ ~TooLarge(m))
    /\ IF ok /\ ~TooLarge(m)
       THEN /\ att' = [att EXCEPT ![a] =
                         [@ EXCEPT !.msg = m, !.buf = RecvBuffer(m),
                                   !.pc = "verify"]]
            /\ UNCHANGED <<space, release_calls, release_kr>>
       ELSE Fail(a, "mach_msg")
    /\ UNCHANGED <<audit_pid, started, closures, registry, child, next_pid, decoy_sent>>

\* #[cfg(feature = "audit_pid")] audit_token_to_pid(msg.msg_trailer.msgh_audit) != child.id()
PidMismatch(r) == audit_pid /\ audit_token_to_pid(r.buf) # r.child_pid

\* Faulty variant: the word after the descriptor's name is returned
ReturnedTask_WrongField(r) == r.buf[HeaderWords + BodyWords + 2]

\* child_task_port = msg.task_port.name
ReturnedTask(r) == task_port_name(r.buf)

\* Lines 280-297: the check of the sender (compiled in with audit_pid only),
\* then Ok((child, child_task_port)).
VerifyAndReturn(a) ==
    LET r == att[a] IN
    /\ r.pc = "verify"
    /\ Logged(a, IF PidMismatch(r) THEN "verify" ELSE "return", 0, ~PidMismatch(r))
    /\ IF PidMismatch(r)
       THEN Finish(a, "err", "pid_mismatch", r.child_pid, audit_token_to_pid(r.buf), 0, -1)
       ELSE Finish(a, "ok", "", 0, 0, r.child_pid, ReturnedTask(r))
    /\ UNCHANGED <<audit_pid, started, closures, queue, registry, child, next_pid, decoy_sent>>

\* ------------------------------------------------- the foreign process
\* What a process that knows a registered name may send to its port: a bare
\* header, a header with two words of data (the second one the name every
\* task has for itself), a message shaped like the child's carrying its own
\* task port, or that message with one more word.
DecoyMessages(port) ==
    { <<MACH_MSGH_BITS_REMOTE(COPY_SEND), HeaderWords * 4, port, 0, 0, 0>>,
      <<MACH_MSGH_BITS_REMOTE(COPY_SEND), (HeaderWords + 2) * 4, port, 0, 0, 0,
        0, TaskSelfName>>,
      mach_msg_send_t(port),
      [mach_msg_send_t(port) EXCEPT ![2] = (SendWords + 1) * 4] \o <<0>> }

\* The pidversion of the foreign process: a kernel counter of forks and
\* execs, which may or may not coincide with a pid.
DecoyPidVersions == {0, FirstChildPid}

DecoySend(n, w, pv) ==
    /\ decoy_sent < MaxDecoySends
    /\ registry[n] # 0
    /\ w \in DecoyMessages(registry[n])
    /\ Len(queue[registry[n]]) < QLimit
    /\ queue' = [queue EXCEPT ![registry[n]] =
                    Append(@, Msg(DecoyPid, pv, Transfer(DecoyPid, w)))]
    /\ decoy_sent' = decoy_sent + 1
    /\ UNCHANGED <<audit_pid, started, att, closures, space, registry,
                   release_calls, release_kr, child, log, next_pid>>

\* ------------------------------------------------------- specification
Next ==
    \/ \E c \in Commands : Call(c)
    \/ \E a \in Attempts, ok \in BOOLEAN : Allocate(a, ok)
    \/ \E a \in Attempts, ok \in BOOLEAN : InsertRight(a, ok)
    \/ \E a \in Attempts, ok \in BOOLEAN : GetBootstrapPort(a, ok)
    \/ \E a \in Attempts, ok \in BOOLEAN : Register(a, ok)
    \/ \E a \in Attempts, ok \in BOOLEAN : Spawn(a, ok)
    \/ \E a \in Attempts, ok \in BOOLEAN : ChildGetBootstrapPort(a, ok)
    \/ \E a \in Attempts, ok \in BOOLEAN : ChildLookUp(a, ok)
    \/ \E a \in Attempts, ok \in BOOLEAN : ChildSend(a, ok)
    \/ \E a \in Attempts, ok \in BOOLEAN : ChildExec(a, ok)
    \/ \E a \in Attempts : SpawnReturn(a)
    \/ \E a \in Attempts, ok \in BOOLEAN : Receive(a, ok)
    \/ \E a \in Attempts : VerifyAndReturn(a)
    \/ \E n \in Names, pv \in DecoyPidVersions :
          \E w \in DecoyMessages(registry[n]) : DecoySend(n, w, pv)

Spec == Init /\ [][Next]_vars

\* --------------------------------------------- repeated use, no failures
\* The same program with a caller that makes up to MaxReuse calls one after
\* another, on any of its Commands, in a system where every kernel call
\* succeeds, every target program can be executed, the fork preserves the
\* bootstrap port and no foreign process sends.
ReuseInit ==
    /\ audit_pid \in BOOLEAN
    /\ started = 0
    /\ att = [a \in ReuseAttempts |-> NoAttempt]
    /\ closures = [c \in Commands |-> <<>>]
    /\ space = [p \in ReuseAttempts |-> [recv |-> FALSE, srefs |-> 0]]
    /\ queue = [p \in ReuseAttempts |-> <<>>]
    /\ registry = [n \in ReuseAttempts |-> 0]
    /\ release_calls = [p \in ReuseAttempts |-> 0]
    /\ release_kr = [p \in ReuseAttempts |-> "none"]
    /\ child = [a \in ReuseAttempts |-> NoChild]
    /\ log = [a \in ReuseAttempts |-> <<>>]
    /\ next_pid = FirstChildPid
    /\ decoy_sent = 0

\* The caller invokes spawn_get_task_port on Command c after its earlier
\* calls have returned.
CallAgain(c) ==
    /\ started < MaxReuse
    /\ \A a \in DOMAIN att : att[a].pc \in {"idle", "done"}
    /\ started' = started + 1
    /\ att' = [att EXCEPT ![started + 1] = [@ EXCEPT !.cmd = c, !.pc = "allocate"]]
    /\ UNCHANGED <<audit_pid, closures, space, queue, registry, release_calls,
                   release_kr, child, log, next_pid, decoy_sent>>

ReuseNext ==
    \/ \E c \in Commands : CallAgain(c)
    \/ \E a \in ReuseAttempts : Allocate(a, TRUE)
    \/ \E a \in ReuseAttempts : InsertRight(a, TRUE)
    \/ \E a \in ReuseAttempts : GetBootstrapPort(a, TRUE)
    \/ \E a \in ReuseAttempts : Register(a, TRUE)
    \/ \E a \in ReuseAttempts : Spawn(a, TRUE)
    \/ \E a \in ReuseAttempts :
          ChildGetBootstrapPort(a, TRUE) /\ child'[a].bootstrap_port = ChildBootstrapPort
    \/ \E a \in ReuseAttempts : ChildLookUp(a, TRUE)
    \/ \E a \in ReuseAttempts : ChildSend(a, TRUE)
    \/ \E a \in ReuseAttempts : ChildExec(a, TRUE)
    \/ \E a \in ReuseAttempts : SpawnReturn(a)
    \/ \E a \in ReuseAttempts : Receive(a, TRUE)
    \/ \E a \in ReuseAttempts : VerifyAndReturn(a)

ReuseSpec == ReuseInit /\ [][ReuseNext]_vars

\* ================================================================ claims
Done(a) == att[a].pc = "done"
Succeeded(a) == att[a].result = "ok"
Received(a) == att[a].msg # NoMsg

\* log[a] holds an entry of this step on this name with this outcome
Has(a, step, n, ok) == \E i \in 1..Len(log[a]) : log[a][i] = Entry(step, n, ok)
Idx(a, step, n, ok) == CHOOSE i \in 1..Len(log[a]) : log[a][i] = Entry(step, n, ok)
\* ... and it comes before an entry of step2 (on n2, with outcome ok2)
Before(a, step, n, ok, step2, n2, ok2) ==
    Has(a, step, n, ok) /\ Idx(a, step, n, ok) < Idx(a, step2, n2, ok2)

ChildSteps == {"child_get_bootstrap", "child_look_up", "child_send"}
ParentSteps == {"allocate", "insert_right", "get_bootstrap", "register", "spawn",
                "receive", "verify"}

\* a step of one of the child's pre_exec closures returned an error
ChildCallbackFailed(a) ==
    \E i \in 1..Len(log[a]) : log[a][i].step \in ChildSteps /\ ~log[a][i].ok

\* ---------------------------------------------------------------- C1
\* C1 (as stated): whenever the call returns Ok((child, task)), pid_for_task
\* on the returned task handle yields child.id().
C1_Original ==
    \A a \in Attempts :
        Succeeded(a) => pid_for_task(att[a].ret_task) = att[a].ret_child

\* C1 (amended): whenever the call returns Ok((child, task)) and the message
\* it received on its port is the one its own child sent, pid_for_task on
\* the returned task handle yields child.id().
C1_OwnMessageGivesOwnTask ==
    \A a \in Attempts :
        (Succeeded(a) /\ att[a].msg.sender = att[a].ret_child)
            => /\ att[a].ret_child = child[a].pid
               /\ pid_for_task(att[a].ret_task) = att[a].ret_child

C1_Witness ==
    \E a \in Attempts :
        /\ Succeeded(a)
        /\ att[a].msg.sender = child[a].pid
        /\ pid_for_task(att[a].ret_task) = child[a].pid

\* ---------------------------------------------------------------- C2
\* C2: once a step of the child's pre_exec callback has failed, the parent's
\* call gets no further than waiting in spawn and ends with an error and no
\* task handle; and a call that returned Ok has a child that sent its task
\* port to the call's own port.
C2_CallbackFailureFailsCall ==
    \A a \in Attempts :
        /\ ChildCallbackFailed(a) =>
              /\ att[a].pc \in {"spawn_wait", "done"}
              /\ ~Succeeded(a)
              /\ att[a].ret_task = -1
              /\ Done(a) => att[a].result = "err" /\ att[a].err = "spawn"
        /\ Succeeded(a) => Has(a, "child_send", att[a].name, TRUE)

C2_Witness ==
    \E a \in Attempts :
        /\ ChildCallbackFailed(a)
        /\ Done(a)
        /\ att[a].result = "err"
        /\ att[a].err = "spawn"

\* ---------------------------------------------------------------- C3
\* C3 (as stated): in a build with audit_pid, a call whose received message
\* was sent by a process with another pid than the child's ends with the
\* identity-mismatch error naming the child's pid and the sender's pid, and
\* returns no task handle.
C3_ForgedMessageRejected ==
    audit_pid =>
        \A a \in Attempts :
            (Done(a) /\ Received(a) /\ att[a].msg.sender # child[a].pid)
                => /\ att[a].result = "err"
                   /\ att[a].err = "pid_mismatch"
                   /\ att[a].expected = child[a].pid
                   /\ att[a].got = att[a].msg.sender
                   /\ att[a].ret_task = -1

\* ---------------------------------------------------------------- C4
\* C4: the names of any two calls differ, each call registers its own name
\* for its own port, a port of a call in progress holds no message of
\* another call's child, and no call receives, or returns the task port of,
\* another call's child; a received message that a spawned child sent is
\* the message of the call's own child.
C4_NoCrossTalk ==
    \A a \in Attempts :
        /\ \A b \in Attempts \ {a} :
              /\ (att[a].name # 0 /\ att[b].name # 0) => att[a].name # att[b].name
              /\ (att[a].port # 0 /\ att[b].port # 0) => att[a].port # att[b].port
              /\ (child[b].pid # 0 /\ Received(a)) => att[a].msg.sender # child[b].pid
              /\ (child[b].pid # 0 /\ Succeeded(a))
                    => pid_for_task(att[a].ret_task) # child[b].pid
              /\ (child[b].pid # 0 /\ att[a].port # 0 /\ ~Done(a))
                    => \A i \in 1..Len(queue[att[a].port]) :
                           queue[att[a].port][i].sender # child[b].pid
        /\ (att[a].name # 0 /\ registry[att[a].name] # 0)
              => registry[att[a].name] = att[a].port
        /\ (Received(a) /\ att[a].msg.sender # DecoyPid)
              => att[a].msg = Msg(child[a].pid, 0,
                                  Transfer(child[a].pid, mach_msg_send_t(att[a].port)))

\* two calls in progress at once, each holding the message of its own child
C4_Witness ==
    \E a, b \in Attempts :
        /\ a # b
        /\ att[a].pc = "verify" /\ att[b].pc = "verify"
        /\ att[a].msg.sender = child[a].pid
        /\ att[b].msg.sender = child[b].pid

\* ---------------------------------------------------------------- C5
\* C5 (as stated): after the call has returned, with success or with an
\* error, its port name holds neither the receive right nor a send right in
\* the parent's space.
C5_PortReleasedAfterCall ==
    \A a \in Attempts :
        (Done(a) /\ att[a].port # 0)
            => ~space[att[a].port].recv /\ space[att[a].port].srefs = 0

\* ---------------------------------------------------------------- C6
\* C6: a call that has returned gave either Ok with the child's handle and
\* the task port read from the received message, or Err with neither; and
\* it gave Err whenever, after spawn returned the child, the receive failed
\* or the identity check rejected the message.
HandoffFailed(a) ==
    /\ Has(a, "spawn", att[a].name, TRUE)
    /\ Has(a, "receive", 0, FALSE) \/ Has(a, "verify", 0, FALSE)

C6_FailedHandoffReturnsNothing ==
    \A a \in Attempts :
        /\ Done(a) =>
              \/ /\ att[a].result = "err"
                 /\ att[a].ret_child = 0
                 /\ att[a].ret_task = -1
              \/ /\ att[a].result = "ok"
                 /\ att[a].ret_child = child[a].pid
                 /\ att[a].ret_child # 0
                 /\ Received(a)
                 /\ att[a].ret_task = task_port_name(att[a].buf)
        /\ HandoffFailed(a) =>
              /\ Done(a)
              /\ att[a].result = "err"
              /\ att[a].err \in {"mach_msg", "pid_mismatch"}

\* a child is running its target program and the call failed at the receive
C6_Witness ==
    \E a \in Attempts :
        /\ HandoffFailed(a)
        /\ child[a].pc = "running"
        /\ att[a].result = "err"
        /\ att[a].ret_child = 0

\* ---------------------------------------------------------------- C7
\* C7: in the log of a call no step on a given name appears twice; nothing
\* follows a failed step of the parent, and only the parent's failed spawn
\* follows a failed step of the child; a call with a failed step is over
\* with Err naming the failed call (or still waiting in spawn for the child
\* to report); and a call that is over ended Ok with every step done and
\* successful, or Err with nothing returned.
FullSuccessLog(a) ==
    /\ \A i \in 1..Len(log[a]) : log[a][i].ok
    /\ \A st \in {"allocate", "insert_right", "get_bootstrap", "receive", "return"} :
          Has(a, st, 0, TRUE)
    /\ \A st \in {"register", "spawn", "child_get_bootstrap", "child_look_up", "child_send"} :
          Has(a, st, att[a].name, TRUE)

ErrOfStep(st) ==
    CASE st = "allocate" -> "mach_port_allocate"
      [] st = "insert_right" -> "mach_port_insert_right"
      [] st = "get_bootstrap" -> "task_get_special_port"
      [] st = "register" -> "bootstrap_register2"
      [] st = "spawn" -> "spawn"
      [] st = "receive" -> "mach_msg"
      [] st = "verify" -> "pid_mismatch"
      [] OTHER -> "spawn"

C7_FirstFailureEndsAttempt ==
    \A a \in Attempts :
        /\ \A i, j \in 1..Len(log[a]) :
              /\ (i # j) => (log[a][i].step # log[a][j].step \/ log[a][i].n # log[a][j].n)
              /\ (i < j /\ ~log[a][i].ok) =>
                    /\ log[a][i].step \in ChildSteps \cup {"exec"}
                    /\ j = Len(log[a])
                    /\ log[a][j] = Entry("spawn", att[a].name, FALSE)
        /\ \A i \in 1..Len(log[a]) :
              ~log[a][i].ok =>
                  IF log[a][i].step \in ParentSteps
                  THEN /\ i = Len(log[a])
                       /\ Done(a)
                       /\ att[a].result = "err"
                       /\ att[a].err = ErrOfStep(log[a][i].step)
                  ELSE /\ att[a].pc \in {"spawn_wait", "done"}
                       /\ child[a].pc \in {"failed", "reaped"}
                       /\ Done(a) => att[a].result = "err" /\ att[a].err = "spawn"
        /\ Done(a) =>
              \/ att[a].result = "ok" /\ FullSuccessLog(a)
              \/ /\ att[a].result = "err"
                 /\ att[a].ret_child = 0 /\ att[a].ret_task = -1
                 /\ ~log[a][Len(log[a])].ok

\* a call whose insert_right failed: nothing was run after it
C7_Witness ==
    \E a \in Attempts :
        /\ Done(a)
        /\ log[a] = <<Entry("allocate", 0, TRUE), Entry("insert_right", 0, FALSE)>>
        /\ att[a].err = "mach_port_insert_right"
        /\ \E b \in Attempts : Succeeded(b) /\ FullSuccessLog(b)

\* ---------------------------------------------------------------- C8
\* C8 (as stated): a message is received, and a task handle returned from
\* it, only if it has exactly the size of one mach_msg_send_t.
C8_OnlyExactSizeReceived ==
    \A a \in Attempts :
        Received(a) => Len(att[a].msg.words) = SendWords

\* ---------------------------------------------------------------- C9
\* C9: for the port a call wrapped in MachPort, mach_port_deallocate has
\* been called by the wrapper's drop exactly once when the call is over and
\* not at all before; a port no call wrapped is never released; and when
\* the release itself failed, the call's result is not an error of the
\* release (it is the error of the step that failed).
C9_ExactlyOneRelease ==
    /\ \A a \in Attempts :
          att[a].port # 0 =>
              /\ release_calls[att[a].port] = (IF Done(a) THEN 1 ELSE 0)
              /\ att[a].wrapper = ~Done(a)
              /\ (Done(a) /\ release_kr[att[a].port] = "invalid_right")
                    => att[a].result = "err" /\ att[a].err = "mach_port_insert_right"
    /\ \A p \in PortNames :
          (\A a \in Attempts : att[a].port # p) => release_calls[p] = 0

\* one call over after Ok, one over after Err with a release that failed
C9_Witness ==
    \E a, b \in Attempts :
        /\ Succeeded(a) /\ release_calls[att[a].port] = 1
        /\ att[b].result = "err" /\ att[b].port # 0
        /\ release_calls[att[b].port] = 1
        /\ release_kr[att[b].port] = "invalid_right"

\* --------------------------------------------------------------- C10
\* C10: in the log of every call the steps on the call's own name come in
\* the order allocate, register, fork, look-up, send, receive, return, each
\* present only after the one before succeeded; a child exists only if the
\* call's name is registered for the call's port; and any name a child is
\* about to look up, or has looked up, is registered.
C10_ProtocolOrder ==
    \A a \in Attempts :
        LET nm == att[a].name IN
        /\ \A ok \in BOOLEAN :
              /\ Has(a, "register", nm, ok)
                    => Before(a, "allocate", 0, TRUE, "register", nm, ok)
              /\ Has(a, "child_look_up", nm, ok)
                    => Before(a, "fork", nm, TRUE, "child_look_up", nm, ok)
              /\ Has(a, "child_send", nm, ok)
                    => Before(a, "child_look_up", nm, TRUE, "child_send", nm, ok)
              /\ Has(a, "receive", 0, ok)
                    => Before(a, "child_send", nm, TRUE, "receive", 0, ok)
        /\ Has(a, "fork", nm, TRUE) => Before(a, "register", nm, TRUE, "fork", nm, TRUE)
        /\ Has(a, "return", 0, TRUE) => Before(a, "receive", 0, TRUE, "return", 0, TRUE)
        /\ Succeeded(a) => Has(a, "return", 0, TRUE) /\ log[a][Len(log[a])].step = "return"
        /\ child[a].pid # 0 => (nm # 0 /\ registry[nm] = att[a].port)
        /\ child[a].pc = "lookup" => registry[ClosureName(a)] # 0
        /\ \A i \in 1..Len(log[a]) :
              log[a][i].step = "child_look_up" => registry[log[a][i].n] # 0

\* a call that went through every step and returned Ok
C10_Witness ==
    \E a \in Attempts :
        /\ Succeeded(a)
        /\ Before(a, "register", att[a].name, TRUE, "fork", att[a].name, TRUE)
        /\ Before(a, "child_send", att[a].name, TRUE, "receive", 0, TRUE)

\* --------------------------------------------------------------- C11
\* C11: a child that reached the exec of its target program (or runs it) has
\* run every pre_exec closure of its Command to the end with success, the
\* send to its own call's port included, and all of that before the exec;
\* and a child one of whose closure steps failed never reaches the exec: it
\* has exited (and is reaped once spawn returned).
C11_ExecOnlyAfterCallback ==
    \A a \in Attempts :
        /\ (child[a].pc \in {"exec", "running"} \/ \E ok \in BOOLEAN : Has(a, "exec", 0, ok))
              => /\ ~ChildCallbackFailed(a)
                 /\ Has(a, "child_send", att[a].name, TRUE)
                 /\ \A k \in 1..child[a].k :
                       \A st \in ChildSteps : Has(a, st, closures[att[a].cmd][k], TRUE)
        /\ \A i, j \in 1..Len(log[a]) :
              (log[a][i].step = "exec" /\ log[a][j].step \in ChildSteps) => j < i
        /\ ChildCallbackFailed(a)
              => /\ child[a].pc \in {"failed", "reaped"}
                 /\ \A ok \in BOOLEAN : ~Has(a, "exec", 0, ok)

\* one child runs its program after both closures of a reused Command, and
\* another child, whose closure failed, never exec'ed and is reaped
C11_Witness ==
    \E a, b \in Attempts :
        /\ child[a].pc = "running" /\ child[a].k = 2
        /\ Has(a, "child_send", att[a].name, TRUE)
        /\ ChildCallbackFailed(b) /\ child[b].pc = "reaped"

\* --------------------------------------------------------------- C12
\* C12 (as stated): the names of any two calls differ, a name is drawn
\* before its call's spawn and registered by its own call only, and every
\* look-up of a call's name is made by that call's own child, once: no
\* child of another (later) call looks the name up.
C12_NameUsedByOneSpawnOnly ==
    \A a \in Attempts :
        LET nm == att[a].name IN
        nm # 0 =>
            /\ \A b \in Attempts \ {a} : att[b].name # nm
            /\ Has(a, "fork", nm, TRUE) => Has(a, "register", nm, TRUE)
            /\ \A b \in Attempts : \A i \in 1..Len(log[b]) :
                  (log[b][i].n = nm /\ log[b][i].step \in {"register", "child_look_up"})
                      => b = a
            /\ Cardinality({i \in 1..Len(log[a]) :
                               log[a][i].step = "child_look_up" /\ log[a][i].n = nm}) <= 1

\* --------------------------------------------------------------- C13
\* C13 (as stated): a registered name denotes the port of the one call that
\* drew it, the children of all calls together send at most one message to
\* any one port, and once a call is over no message sent by a child is left
\* queued on its port.
ChildSendsTo(p) ==
    UNION {{<<b, i>> : i \in {j \in 1..Len(log[b]) :
                                 /\ log[b][j].step = "child_send" /\ log[b][j].ok
                                 /\ registry[log[b][j].n] = p}} : b \in Attempts}

C13_OneMessagePerChannel ==
    \A a \in Attempts :
        att[a].port # 0 =>
            /\ \A n \in Names : registry[n] = att[a].port => n = att[a].name
            /\ Cardinality(ChildSendsTo(att[a].port)) <= 1
            /\ Done(a) => \A i \in 1..Len(queue[att[a].port]) :
                              queue[att[a].port][i].sender = DecoyPid

\* --------------------------------------------------------------- C14
\* C14: from its allocation until the call is over, the port of a call
\* holds the receive right in the parent's space, and from insert_right on
\* exactly the one send right made there: registering the name, the child's
\* look-up and the child's dropping of the right it looked up change
\* neither.  What the server and a child hold for the port is a send right
\* to that same port, and every message a child queued names its rights
\* with the copy-send disposition only.
C14_ReceiveRightStaysWithParent ==
    \A a \in Attempts :
        /\ (att[a].port # 0 /\ ~Done(a))
              => /\ space[att[a].port].recv
                 /\ space[att[a].port].srefs = (IF att[a].name # 0 THEN 1 ELSE 0)
                 /\ \A n \in Names : registry[n] = att[a].port => n = att[a].name
                 /\ \A i \in 1..Len(queue[att[a].port]) :
                       LET m == queue[att[a].port][i] IN
                       m.sender # DecoyPid
                           => /\ m.words[1] = MACH_MSGH_BITS_REMOTE(COPY_SEND) + BITS_COMPLEX
                              /\ m.words[HeaderWords + 1] = 1
                              /\ m.words[SendWords] = COPY_SEND
        /\ child[a].port # 0
              => /\ child[a].port = registry[ClosureName(a)]
                 /\ ClosureName(a) = att[a].name => child[a].port = att[a].port
                 /\ space[child[a].port].recv

\* one call is about to receive after its child looked the port up, sent
\* and dropped its send right, while another call's child holds the send
\* right it looked up: both ports keep their receive right in the parent
C14_Witness ==
    \E a, b \in Attempts :
        /\ att[a].pc = "receive" /\ child[a].pc = "running" /\ child[a].port = 0
        /\ registry[att[a].name] = att[a].port
        /\ space[att[a].port].recv /\ space[att[a].port].srefs = 1
        /\ child[b].pc = "send" /\ child[b].port = att[b].port
        /\ space[att[b].port].recv

\* --------------------------------------------------------------- C15
\* C15: every message a child sends holds one descriptor whose disposition
\* is copy-send; a child holds as many references on its own task port
\* after its sends as the one it had at the fork; and the message the
\* parent receives from its child names, in the parent's space, a right to
\* that same child's task.
C15_SendCopiesTaskPort ==
    \A a \in Attempts :
        /\ child[a].pid # 0 => child[a].task_self = 1
        /\ \A p \in PortNames : \A i \in 1..Len(queue[p]) :
              queue[p][i].sender = child[a].pid
                  => /\ Len(queue[p][i].words) = SendWords
                     /\ queue[p][i].words[HeaderWords + 1] = 1
                     /\ queue[p][i].words[SendWords] = COPY_SEND
                     /\ pid_for_task(task_port_name(queue[p][i].words)) = child[a].pid
        /\ (Received(a) /\ att[a].msg.sender = child[a].pid)
              => /\ att[a].msg.words[SendWords] = COPY_SEND
                 /\ pid_for_task(task_port_name(att[a].buf)) = child[a].pid

\* the parent returned the duplicate while the child, running its program
\* after two sends, still holds its own task port
C15_Witness ==
    \E a \in Attempts :
        /\ Succeeded(a) /\ att[a].msg.sender = child[a].pid
        /\ child[a].pc = "running" /\ child[a].k = 2
        /\ child[a].task_self = 1
        /\ pid_for_task(att[a].ret_task) = child[a].pid

\* --------------------------------------------------------------- C16
\* C16: the reference a child's closure holds is one the child fetched
\* itself, never the value the parent fetched; a child about to send found
\* its port through its own reference to the namespace of the parent; and
\* a child whose own reference denotes another namespace gets no further
\* than the look-up, which fails: it sends nothing for that name and the
\* call ends with the error of spawn.
C16_LookUpThroughChildsOwnPort ==
    \A a \in Attempts :
        /\ child[a].bootstrap_port # 0
              => /\ child[a].bootstrap_port \in ChildBootstrapPorts
                 /\ child[a].bootstrap_port # att[a].bootstrap_port
        /\ child[a].pc = "send"
              => /\ child[a].bootstrap_port = ChildBootstrapPort
                 /\ child[a].port = bootstrap_look_up(child[a].bootstrap_port, ClosureName(a))
        /\ child[a].bootstrap_port = RemappedBootstrapPort
              => /\ child[a].pc \in {"lookup", "failed", "reaped"}
                 /\ child[a].pc # "lookup" => Has(a, "child_look_up", ClosureName(a), FALSE)
                 /\ \A ok \in BOOLEAN : ~Has(a, "child_send", ClosureName(a), ok)
                 /\ Done(a) => att[a].result = "err" /\ att[a].err = "spawn"

\* one call's child, with its view remapped, failed at the look-up and the
\* call returned the error of spawn; another call's child found the port
\* through its own preserved reference and the call returned Ok
C16_Witness ==
    \E a, b \in Attempts :
        /\ child[a].bootstrap_port = RemappedBootstrapPort
        /\ Has(a, "child_look_up", att[a].name, FALSE)
        /\ Done(a) /\ att[a].err = "spawn"
        /\ Succeeded(b) /\ Has(b, "child_look_up", att[b].name, TRUE)

\* --------------------------------------------------------------- C17
\* C17 (as stated): when every kernel call succeeds and every target
\* program can be executed, no call is ever waiting in spawn for a child
\* that is itself waiting, in its send with no timeout, for room in the
\* queue of a port on which no call will receive; and every step that was
\* taken succeeded, so that a call that is over returned Ok.
SendBlocked(a) ==
    /\ att[a].pc = "spawn_wait"
    /\ child[a].pc = "send"
    /\ Len(queue[child[a].port]) >= QLimit
    /\ \A b \in DOMAIN att :
          att[b].port = child[a].port => (b = a \/ att[b].pc = "done")

C17_NoCallBlockedForever ==
    \A a \in DOMAIN att :
        /\ ~SendBlocked(a)
        /\ att[a].pc = "done" => att[a].result = "ok"

\* --------------------------------------------------------------- C18
\* C18: a call at its receive step has a child that ran its callback to the
\* end: the send to the call's own port is logged as successful before the
\* return of spawn, and the port's queue holds a message, the child's own
\* among them, so the receive does not wait; and a call whose child's
\* callback failed has no receive in its log, only the failed spawn.
C18_ReceiveFindsChildsMessage ==
    \A a \in Attempts :
        /\ att[a].pc = "receive"
              => /\ Before(a, "child_send", att[a].name, TRUE, "spawn", att[a].name, TRUE)
                 /\ ~ChildCallbackFailed(a)
                 /\ queue[att[a].port] # <<>>
                 /\ \E i \in 1..Len(queue[att[a].port]) :
                       queue[att[a].port][i] =
                           Msg(child[a].pid, 0,
                               Transfer(child[a].pid, mach_msg_send_t(att[a].port)))
        /\ \A ok \in BOOLEAN :
              Has(a, "receive", 0, ok)
                  => Before(a, "child_send", att[a].name, TRUE, "receive", 0, ok)
        /\ ChildCallbackFailed(a)
              => /\ \A ok \in BOOLEAN : ~Has(a, "receive", 0, ok)
                 /\ att[a].pc # "receive"
                 /\ Done(a) => log[a][Len(log[a])] = Entry("spawn", att[a].name, FALSE)

\* a call is at its receive step and its child's message heads the queue
C18_Witness ==
    \E a \in Attempts :
        /\ att[a].pc = "receive"
        /\ Head(queue[att[a].port]).sender = child[a].pid
        /\ child[a].pc = "running"

\* --------------------------------------------------------------- C19
\* C19 (as stated): once a call has returned an error, the child it forked,
\* if any, is not running its target program: it never exec'ed and has been
\* reaped, or it was terminated before the error was returned.
C19_NoLiveChildAfterError ==
    \A a \in Attempts :
        (Done(a) /\ att[a].result = "err")
            => child[a].pc \in {"none", "reaped"}

====
